---- MODULE Spec2Model ----
(***************************************************************************)
(* Smart Light Voice Control (src/main.py): a Kivy app that starts an      *)
(* Android speech recognizer on a button press, classifies the transcript  *)
(* with regular expressions and sends an IR pulse pattern.                 *)
(*                                                                         *)
(* Text is modelled as sequences of one-character strings, so that         *)
(* lower(), strip(), upper() and re.search are computed, not assumed.      *)
(***************************************************************************)
EXTENDS Integers, Sequences, FiniteSets, TLC

(* ------------------------------ bounds --------------------------------- *)
\* start_listening is entered at most MaxSessions times in a behaviour
MaxSessions == 2
\* the OS delivers at most MaxMatches recognition candidates in one result
MaxMatches == 2

(* ------------------------------- text ---------------------------------- *)
UpperChars == <<"A", "B", "C", "D", "E", "F", "G", "H", "I", "J", "K", "L", "M", "N", "O", "P", "Q", "R", "S", "T", "U", "V", "W", "X", "Y", "Z">>
LowerChars == <<"a", "b", "c", "d", "e", "f", "g", "h", "i", "j", "k", "l", "m", "n", "o", "p", "q", "r", "s", "t", "u", "v", "w", "x", "y", "z">>
DigitChars == <<"0", "1", "2", "3", "4", "5", "6", "7", "8", "9">>

IndexIn(c, cs) == IF \E i \in 1..Len(cs) : cs[i] = c
                  THEN CHOOSE i \in 1..Len(cs) : cs[i] = c
                  ELSE 0

\* str.lower() and str.upper() on one character
lower_char(c) == IF IndexIn(c, UpperChars) # 0 THEN LowerChars[IndexIn(c, UpperChars)] ELSE c
upper_char(c) == IF IndexIn(c, LowerChars) # 0 THEN UpperChars[IndexIn(c, LowerChars)] ELSE c

lower(s) == [i \in 1..Len(s) |-> lower_char(s[i])]
upper(s) == [i \in 1..Len(s) |-> upper_char(s[i])]

IsSpace(c) == c \in {" ", "\t", "\n"}

\* str.strip(): drop leading and trailing whitespace
strip(s) ==
    LET keep == {i \in 1..Len(s) : ~IsSpace(s[i])}
    IN  IF keep = {} THEN <<>>
        ELSE SubSeq(s, CHOOSE i \in keep : \A j \in keep : i <= j,
                       CHOOSE i \in keep : \A j \in keep : i >= j)

\* the regular expression class \w
IsWordChar(c) ==
    \/ IndexIn(c, UpperChars) # 0
    \/ IndexIn(c, LowerChars) # 0
    \/ IndexIn(c, DigitChars) # 0
    \/ c = "_"

(* -------------------------- regular expressions ------------------------ *)
\* A pattern is a sequence of tokens: a literal text, an optional text
\* (x? and (?:x)?) and the capturing group (\w+).
Lit(cs)  == [kind |-> "lit",  cs |-> cs]
Opt(cs)  == [kind |-> "opt",  cs |-> cs]
WordGroup == [kind |-> "word", cs |-> <<>>]

NoMatch == [ok |-> FALSE, group |-> <<>>]

\* re.IGNORECASE comparison of the literal cs with s at position pos
LitAt(cs, s, pos) ==
    /\ pos + Len(cs) - 1 <= Len(s)
    /\ \A i \in 1..Len(cs) : lower_char(s[pos + i - 1]) = lower_char(cs[i])

MinOr0(S) == IF S = {} THEN 0 ELSE CHOOSE x \in S : \A y \in S : x <= y
MaxOr0(S) == IF S = {} THEN 0 ELSE CHOOSE x \in S : \A y \in S : x >= y

\* length of the longest run of \w characters of s that starts at pos
WordRun(s, pos) ==
    MaxOr0({n \in 1..(Len(s) - pos + 1) : \A i \in pos..(pos + n - 1) : IsWordChar(s[i])})

\* the group (\w+) of length l at pos; l = 0: no length lets the rest match
GroupAt(s, pos, l) ==
    IF l = 0 THEN NoMatch ELSE [ok |-> TRUE, group |-> SubSeq(s, pos, pos + l - 1)]

\* match_here[k, pos] is the backtracking match of pat[k..] at s[pos..], the
\* greedy choice tried first
match_table(pat, s) ==
    LET match_here[k \in 1..(Len(pat) + 1), pos \in 1..(Len(s) + 1)] ==
          IF k > Len(pat) THEN [ok |-> TRUE, group |-> <<>>]
          ELSE
            CASE pat[k].kind = "lit" ->
                   IF LitAt(pat[k].cs, s, pos)
                   THEN match_here[k + 1, pos + Len(pat[k].cs)]
                   ELSE NoMatch
              [] pat[k].kind = "opt" ->
                   IF LitAt(pat[k].cs, s, pos) /\ match_here[k + 1, pos + Len(pat[k].cs)].ok
                   THEN match_here[k + 1, pos + Len(pat[k].cs)]
                   ELSE match_here[k + 1, pos]
              [] pat[k].kind = "word" ->
                   GroupAt(s, pos, MaxOr0({l \in 1..WordRun(s, pos) :
                                              match_here[k + 1, pos + l].ok}))
    IN  match_here

\* the match at position p of the table, p = 0: no position matches
MatchAt(table, p) == IF p = 0 THEN NoMatch ELSE table[1, p]

Leftmost(table, n) == MatchAt(table, MinOr0({p \in 1..n : table[1, p].ok}))

\* re.search(pattern, s, re.IGNORECASE): the match at the leftmost position
search(pat, s) == Leftmost(match_table(pat, s), Len(s) + 1)

(* ------------------------------- tables -------------------------------- *)
CARRIER == 38000

ColorNames == << <<"r", "e", "d">>, <<"b", "l", "u", "e">>, <<"g", "r", "e", "e", "n">>, <<"w", "h", "i", "t", "e">>, <<"y", "e", "l", "l", "o", "w">>, <<"p", "u", "r", "p", "l", "e">>, <<"o", "r", "a", "n", "g", "e">>, <<"p", "i", "n", "k">> >>

ColorCodes == <<
    <<38000, 9000, 4500, 562, 562, 1687, 562>>,
    <<38000, 9000, 4500, 562, 1687, 562, 562>>,
    <<38000, 9000, 4500, 1687, 562, 562, 562>>,
    <<38000, 9000, 4500, 562, 562, 562, 1687>>,
    <<38000, 9000, 4500, 1687, 562, 1687, 562>>,
    <<38000, 9000, 4500, 562, 1687, 1687, 1687>>,
    <<38000, 9000, 4500, 1687, 1687, 562, 562>>,
    <<38000, 9000, 4500, 1687, 562, 562, 1687>> >>

\* `color in COLOR_MAP` and COLOR_MAP[color]
InColorMap(color) == \E i \in 1..Len(ColorNames) : ColorNames[i] = color
COLOR_MAP(color) == ColorCodes[CHOOSE i \in 1..Len(ColorNames) : ColorNames[i] = color]

ON_CODE  == <<38000, 9000, 4500, 562, 562, 562, 562>>
OFF_CODE == <<38000, 9000, 4500, 562, 1687, 1687, 562>>

COMMAND_PATTERNS == [
    on |-> <<
        << Lit(<<"d", "a", "d", "d", "y">>), Opt(<<"'">>), Lit(<<"s", " ", "h", "o", "m", "e">>) >>,
        << Lit(<<"t", "u", "r", "n", " ", "o", "n">>) >>,
        << Lit(<<"l", "i", "g", "h", "t">>), Opt(<<"s">>), Lit(<<" ", "o", "n">>) >>,
        << Lit(<<"p", "o", "w", "e", "r", " ", "o", "n">>) >> >>,
    off |-> <<
        << Lit(<<"t", "u", "r", "n", " ", "o", "f", "f">>) >>,
        << Lit(<<"l", "i", "g", "h", "t">>), Opt(<<"s">>), Lit(<<" ", "o", "f", "f">>) >>,
        << Lit(<<"p", "o", "w", "e", "r", " ", "o", "f", "f">>) >>,
        << Lit(<<"s", "h", "u", "t", " ", "o", "f", "f">>) >> >>,
    color |-> <<
        << Lit(<<"c", "h", "a", "n", "g", "e", " ", "t", "o", " ">>), WordGroup >>,
        << Lit(<<"s", "e", "t", " ">>), Opt(<<"c", "o", "l", "o", "r", " ">>), Lit(<<"t", "o", " ">>), WordGroup >>,
        << Lit(<<"m", "a", "k", "e", " ", "i", "t", " ">>), WordGroup >>,
        << Lit(<<"s", "w", "i", "t", "c", "h", " ", "t", "o", " ">>), WordGroup >> >> ]

\* transcripts the recognizer may deliver (as delivered: mixed case, padded)
Transcripts == {
    <<" ", "T", "u", "r", "n", " ", "O", "n", " ">>,
    <<"l", "i", "g", "h", "t", "s", " ", "o", "f", "f">>,
    <<"M", "a", "k", "e", " ", "i", "t", " ", "p", "i", "n", "k", ",", " ", "t", "h", "e", "n", " ", "S", "h", "u", "t", " ", "O", "f", "f", " ", "a", "n", "d", " ", "p", "o", "w", "e", "r", " ", "o", "n">>,
    <<"t", "u", "r", "n", " ", "o", "f", "f", ",", " ", "m", "a", "k", "e", " ", "i", "t", " ", "p", "i", "n", "k">>,
    <<"s", "e", "t", " ", "c", "o", "l", "o", "r", " ", "t", "o", " ", "G", "r", "e", "e", "n">>,
    <<"c", "h", "a", "n", "g", "e", " ", "t", "o", " ", "t", "e", "a", "l", " ", "m", "a", "k", "e", " ", "i", "t", " ", "r", "e", "d">>,
    <<"h", "e", "l", "l", "o">> }


\* matches.get(i).lower().strip(); for the transcripts of the model it is
\* evaluated once
CommandTable == [t \in Transcripts |-> strip(lower(t))] @@ <<>>

command_of(match) ==
    IF match \in DOMAIN CommandTable THEN CommandTable[match] ELSE strip(lower(match))

\* the commands process_speech makes of the transcripts
Commands == {CommandTable[t] : t \in Transcripts}

Range(q) == {q[i] : i \in DOMAIN q}

Patterns == Range(COMMAND_PATTERNS.on) \cup Range(COMMAND_PATTERNS.off)
            \cup Range(COMMAND_PATTERNS.color)

\* search over the patterns and commands of the model, evaluated once
SearchTable == [x \in Patterns \X Commands |-> search(x[1], x[2])] @@ <<>>

re_search(pat, s) ==
    IF <<pat, s>> \in DOMAIN SearchTable THEN SearchTable[<<pat, s>>] ELSE search(pat, s)

(* ------------------------------- state --------------------------------- *)
VARIABLES
    platform,           \* kivy.utils.platform
    pc,                 \* "import", "import_error", "constructed", "running", "stopped"
    ir_manager,         \* "None" or "ConsumerIrManager"
    recognizer,         \* 0 (None) or the number of the session that created it
    is_listening,
    listening_timeout,  \* 0 (None) or the ClockEvent of the session that set it
    current_color,
    status_label,       \* [text, color]
    control_btn,        \* [text, background_color, disabled]
    progress_bar,       \* [opacity]
    info_label,         \* the colour shown as "Current color" in the info panel
    clock,              \* the events scheduled with Clock.schedule_once, not yet fired
    os,                 \* the recognizers of the OS: [created, alive, listening]
    starts,             \* number of sessions start_listening has begun
    log                 \* what the last handler did (history)

vars == <<platform, pc, ir_manager, recognizer, is_listening, listening_timeout,
          current_color, status_label, control_btn, progress_bar, info_label,
          clock, os, starts, log>>

\* the app object with its widgets, the Clock and the OS recognizers, as one value
\* the handlers transform; calls collects what one handler hands to
\* send_ir_code and ir_manager.transmit
NoCalls == [sent |-> <<>>, tx |-> <<>>, trace |-> <<>>, exc |-> "none"]

Self == [ir_manager |-> ir_manager, recognizer |-> recognizer,
         is_listening |-> is_listening, listening_timeout |-> listening_timeout,
         current_color |-> current_color, status_label |-> status_label,
         control_btn |-> control_btn, progress_bar |-> progress_bar,
         info_label |-> info_label, clock |-> clock, os |-> os,
         calls |-> NoCalls]

\* a message: a format and the text substituted into it (a sequence of strings)
Msg(fmt, arg) == [fmt |-> fmt, arg |-> arg]

Event(kind, id) == [kind |-> kind, id |-> id]

(* ------------------------------ handlers ------------------------------- *)
show_status(m, message) ==
    [m EXCEPT !.status_label = [text |-> message, mark |-> "", color |-> "white"]]

show_success(m, message) ==
    [m EXCEPT !.status_label = [text |-> message, mark |-> "", color |-> "green"]]

\* the text is prefixed with a cross mark and logged
show_error(m, message) ==
    [m EXCEPT !.status_label = [text |-> message, mark |-> "cross", color |-> "red"]]

update_info_panel(m) == [m EXCEPT !.info_label = m.current_color]

\* on_start that tries the IR blaster out with the ON code
on_start_sends(m, service) ==
    IF platform = "android" /\ service = "emitter"
    THEN [m EXCEPT !.ir_manager = "ConsumerIrManager",
                   !.calls.sent = <<<<38000, 9000, 4500, 562, 562, 562, 562>>>>,
                   !.calls.tx = <<[frequency |-> 38000,
                                   pattern |-> <<9000, 4500, 562, 562, 562, 562>>]>>]
    ELSE [show_error(m, Msg("No IR blaster detected on this device", <<>>))
             EXCEPT !.control_btn.disabled = TRUE]

on_start(m, service) ==
    IF platform = "android"
    THEN CASE service = "raise" ->
                [show_error(m, Msg("IR initialization failed: {e}", <<>>))
                    EXCEPT !.control_btn.disabled = TRUE]
           [] service = "none" ->
                [show_error(m, Msg("No IR blaster detected on this device", <<>>))
                    EXCEPT !.control_btn.disabled = TRUE]
           [] service = "no_emitter" ->
                [show_error([m EXCEPT !.ir_manager = "ConsumerIrManager"],
                            Msg("No IR blaster detected on this device", <<>>))
                    EXCEPT !.control_btn.disabled = TRUE]
           [] OTHER -> [m EXCEPT !.ir_manager = "ConsumerIrManager"]
    ELSE show_status(m, Msg("Running in desktop mode - IR features disabled", <<>>))

\* stop_listening that drops the recognizer without destroy()
stop_listening_leak(m) ==
    [m EXCEPT !.recognizer = 0,
              !.clock = @ \ {Event("timeout", m.listening_timeout)},
              !.listening_timeout = 0,
              !.is_listening = FALSE,
              !.control_btn.text = "Start Listening",
              !.control_btn.background_color = "green",
              !.progress_bar.opacity = 0]

\* stop_listening that does not cancel the listening timeout
stop_listening_no_cancel(m) ==
    [m EXCEPT !.os.alive = @ \ {m.recognizer},
              !.os.listening = @ \ {m.recognizer},
              !.recognizer = 0,
              !.listening_timeout = 0,
              !.is_listening = FALSE,
              !.control_btn.text = "Start Listening",
              !.control_btn.background_color = "green",
              !.progress_bar.opacity = 0]

\* stop_listening that leaves is_listening set
stop_listening_still_listening(m) ==
    [m EXCEPT !.os.alive = @ \ {m.recognizer},
              !.os.listening = @ \ {m.recognizer},
              !.recognizer = 0,
              !.clock = @ \ {Event("timeout", m.listening_timeout)},
              !.listening_timeout = 0,
              !.control_btn.text = "Start Listening",
              !.control_btn.background_color = "green",
              !.progress_bar.opacity = 0]

\* recognizer.destroy() and ClockEvent.cancel() are taken not to raise
stop_listening(m) ==
    LET m1 == IF m.recognizer # 0
              THEN [m EXCEPT !.os.alive = @ \ {m.recognizer},
                             !.os.listening = @ \ {m.recognizer},
                             !.recognizer = 0]
              ELSE m
        m2 == IF m1.listening_timeout # 0
              THEN [m1 EXCEPT !.clock = @ \ {Event("timeout", m1.listening_timeout)},
                              !.listening_timeout = 0]
              ELSE m1
    IN  [m2 EXCEPT !.is_listening = FALSE,
                   !.control_btn.text = "Start Listening",
                   !.control_btn.background_color = "green",
                   !.progress_bar.opacity = 0]

\* chain names the session whose start_listening began this animation; the
\* value the bar displays is not part of the state
animate_progress(m, chain) ==
    IF m.is_listening
    THEN [m EXCEPT !.clock = @ \cup {Event("animate", chain)}]
    ELSE m

\* start_listening that schedules no listening timeout
start_listening_no_timeout(m, session, fault) ==
    LET m1 == show_status(
                [m EXCEPT !.is_listening = TRUE,
                          !.control_btn.text = "Listening... (Speak Now)",
                          !.control_btn.background_color = "red"],
                Msg("Listening for your command...", <<>>))
        m2 == animate_progress([m1 EXCEPT !.progress_bar.opacity = 1], session)
        m3 == [m2 EXCEPT !.recognizer = session,
                         !.os.created = @ \cup {session},
                         !.os.alive = @ \cup {session}]
        m4 == [m3 EXCEPT !.os.listening = @ \cup {session}]
        failed(mx) == stop_listening(
                        show_error([mx EXCEPT !.calls.exc = fault],
                                   Msg("Failed to start voice recognition: {e}", <<>>)))
    IN  CASE fault = "create" -> failed(m2)
          [] fault = "start"  -> failed(m3)
          [] OTHER            -> m4

\* fault: the call of the try block that raises ("none", "create", "start")
start_listening(m, session, fault) ==
    IF platform # "android"
    THEN show_status(m, Msg("Voice recognition only works on Android devices", <<>>))
    ELSE
      LET m1 == show_status(
                  [m EXCEPT !.is_listening = TRUE,
                            !.control_btn.text = "Listening... (Speak Now)",
                            !.control_btn.background_color = "red"],
                  Msg("Listening for your command...", <<>>))
          m2 == animate_progress([m1 EXCEPT !.progress_bar.opacity = 1], session)
          m3 == [m2 EXCEPT !.recognizer = session,
                           !.os.created = @ \cup {session},
                           !.os.alive = @ \cup {session}]
          m4 == [m3 EXCEPT !.os.listening = @ \cup {session}]
          m5 == [m4 EXCEPT !.listening_timeout = session,
                           !.clock = @ \cup {Event("timeout", session)}]
          failed(mx) == stop_listening(
                          show_error([mx EXCEPT !.calls.exc = fault],
                                     Msg("Failed to start voice recognition: {e}", <<>>)))
      IN  CASE fault = "create" -> failed(m2)
            [] fault = "start"  -> failed(m3)
            [] OTHER            -> m5

\* toggle_listening with the test of is_listening inverted
toggle_listening_inverted(m, session, fault) ==
    IF ~m.is_listening THEN stop_listening(m) ELSE start_listening(m, session, fault)

toggle_listening(m, session, fault) ==
    IF m.is_listening THEN stop_listening(m) ELSE start_listening(m, session, fault)

listening_timeout_callback(m) ==
    stop_listening(show_status(m, Msg("Listening timeout - please try again", <<>>)))

\* send_ir_code that hands the whole list to transmit as the pulse pattern
send_ir_code_whole_pattern(m, pattern, action_text, env) ==
    LET m0 == [m EXCEPT !.calls.sent = Append(@, pattern)] IN
    IF ~env.emitter
    THEN show_error(m0, Msg("No IR emitter found", <<>>))
    ELSE
      LET m1 == [m0 EXCEPT !.calls.tx =
                    Append(@, [frequency |-> pattern[1], pattern |-> pattern])]
      IN  IF env.raises
          THEN show_error([m1 EXCEPT !.calls.exc = "transmit"],
                          Msg("Failed to send IR signal: {e}", <<>>))
          ELSE show_success(m1, action_text)

\* env: what the IR service answers, [emitter, raises]
\* transmit without asking hasIrEmitter()
send_ir_code_unasked(m, pattern, action_text, env) ==
    LET m0 == [m EXCEPT !.calls.sent = Append(@, pattern)] IN
    IF platform # "android"
    THEN show_status(m0, [action_text EXCEPT !.fmt = "[Desktop Mode] {action_text}"])
    ELSE IF m0.ir_manager = "None"
    THEN show_error(m0, Msg("IR manager not available", <<>>))
    ELSE
      LET m1 == [m0 EXCEPT !.calls.tx =
                    Append(@, [frequency |-> pattern[1], pattern |-> Tail(pattern)])]
      IN  IF env.raises
          THEN show_error([m1 EXCEPT !.calls.exc = "transmit"],
                          Msg("Failed to send IR signal: {e}", <<>>))
          ELSE show_success(m1, action_text)

send_ir_code(m, pattern, action_text, env) ==
    LET m0 == [m EXCEPT !.calls.sent = Append(@, pattern)] IN
    IF platform # "android"
    THEN show_status(m0, [action_text EXCEPT !.fmt = "[Desktop Mode] {action_text}"])
    ELSE IF m0.ir_manager = "None"
    THEN show_error(m0, Msg("IR manager not available", <<>>))
    ELSE IF ~env.emitter
    THEN show_error(m0, Msg("No IR emitter found", <<>>))
    ELSE
      LET frequency == pattern[1]
          signal_pattern == Tail(pattern)
          m1 == [m0 EXCEPT !.calls.tx =
                    Append(@, [frequency |-> frequency, pattern |-> signal_pattern])]
      IN  IF env.raises
          THEN show_error([m1 EXCEPT !.calls.exc = "transmit"],
                          Msg("Failed to send IR signal: {e}", <<>>))
          ELSE show_success(m1, action_text)

\* the match of the first pattern of the list that command matches
PatternMatch(patterns, command, i) ==
    IF i = 0 THEN NoMatch ELSE re_search(patterns[i], command)

FirstMatch(patterns, command) ==
    PatternMatch(patterns, command,
                 MinOr0({i \in 1..Len(patterns) : re_search(patterns[i], command).ok}))

\* execute_command returns the app and its result; every call is recorded in
\* calls.trace with the pattern it handed to send_ir_code and current_color
\* before and after it
Returned(m, mx, command, ret) ==
    [m |-> [mx EXCEPT !.calls.trace =
               Append(@, [command |-> command, ret |-> ret,
                          before |-> m.current_color, after |-> mx.current_color,
                          sent |-> SubSeq(mx.calls.sent, Len(m.calls.sent) + 1,
                                          Len(mx.calls.sent))])],
     ret |-> ret]

\* the body of `if match:` in the loop over the color patterns
color_command(m, command, env, color) ==
    IF InColorMap(color)
    THEN Returned(m, send_ir_code(update_info_panel([m EXCEPT !.current_color = color]),
                                  COLOR_MAP(color),
                                  Msg("Changing to {color.upper()}", upper(color)), env),
                  command, TRUE)
    ELSE Returned(m, show_status(m, Msg("Color '{color}' not available. Try: ...", color)),
                  command, FALSE)

color_commands(m, command, env, match) ==
    IF match.ok THEN color_command(m, command, env, lower(match.group))
    ELSE Returned(m, m, command, FALSE)

\* execute_command that looks for the OFF commands first
execute_command_off_first(m, command, env) ==
    IF FirstMatch(COMMAND_PATTERNS.off, command).ok
    THEN Returned(m, send_ir_code(m, OFF_CODE, Msg("Turning lights OFF", <<>>), env),
                  command, TRUE)
    ELSE IF FirstMatch(COMMAND_PATTERNS.on, command).ok
    THEN Returned(m, send_ir_code(m, ON_CODE, Msg("Turning lights ON", <<>>), env),
                  command, TRUE)
    ELSE color_commands(m, command, env, FirstMatch(COMMAND_PATTERNS.color, command))

execute_command(m, command, env) ==
    IF FirstMatch(COMMAND_PATTERNS.on, command).ok
    THEN Returned(m, send_ir_code(m, ON_CODE, Msg("Turning lights ON", <<>>), env),
                  command, TRUE)
    ELSE IF FirstMatch(COMMAND_PATTERNS.off, command).ok
    THEN Returned(m, send_ir_code(m, OFF_CODE, Msg("Turning lights OFF", <<>>), env),
                  command, TRUE)
    ELSE color_commands(m, command, env, FirstMatch(COMMAND_PATTERNS.color, command))

\* the loop over matches from candidate i on; r is what execute_command
\* returned for candidate i
RECURSIVE try_matches(_, _, _, _)
\* the loop without its break
next_match_no_break(r, matches, i, env) ==
    try_matches(r.m, matches, i + 1, env)

next_match(r, matches, i, env) ==
    IF r.ret THEN r ELSE try_matches(r.m, matches, i + 1, env)

try_matches(m, matches, i, env) ==
    IF i > Len(matches) THEN [m |-> m, ret |-> FALSE]
    ELSE next_match(execute_command(m, command_of(matches[i]), env), matches, i, env)

\* `if not command_executed:`
after_matches(r) ==
    IF r.ret THEN r.m
    ELSE show_status(r.m, Msg("Command not recognized. Try: ...", <<>>))

\* results: [kind, list]; kind "raise": getStringArrayList raises, "null": it
\* returns None, "list": it returns list
process_speech(m, results, env, session) ==
    LET body ==
          IF platform # "android" THEN m
          ELSE IF results.kind = "raise"
          THEN show_error([m EXCEPT !.calls.exc = "results"],
                          Msg("Speech processing error: {e}", <<>>))
          ELSE IF results.kind = "null" \/ Len(results.list) = 0
          THEN stop_listening(
                 show_status(m, Msg("No speech detected - please try again", <<>>)))
          ELSE after_matches(try_matches(m, results.list, 1, env))
    IN  [body EXCEPT !.clock = @ \cup {Event("stop", session)}]

\* handle_recognition_error that stops at once instead of scheduling the stop
handle_recognition_error_stops(m, error_message, session) ==
    stop_listening(
      show_error(m, Msg("Voice recognition error: {error_message}", error_message)))

handle_recognition_error(m, error_message, session) ==
    [show_error(m, Msg("Voice recognition error: {error_message}", error_message))
        EXCEPT !.clock = @ \cup {Event("stop", session)}]

error_messages == <<"Network timeout", "Network error", "Audio error", "Server error",
                    "Client error", "Speech timeout", "No match found",
                    "Recognition service busy", "Insufficient permissions">>

\* VoiceRecognitionListener.onError
onError(m, error, session) ==
    LET message == IF error \in 1..Len(error_messages)
                   THEN <<error_messages[error]>>
                   ELSE <<"Unknown error: ", ToString(error)>>
    IN  handle_recognition_error(m, message, session)

\* VoiceRecognitionListener.onResults: process_speech lets no exception out
onResults(m, results, env, session) == process_speech(m, results, env, session)

(* ------------------------------- inputs -------------------------------- *)
IrServices == {"emitter", "no_emitter", "none", "raise"}
StartFaults == {"none", "create", "start"}
IrAnswers == {[emitter |-> TRUE, raises |-> FALSE], [emitter |-> TRUE, raises |-> TRUE],
              [emitter |-> FALSE, raises |-> FALSE]}
ErrorCodes == {2, 7, 13}

RECURSIVE SeqsUpTo(_, _)
SeqsUpTo(S, n) == IF n = 0 THEN {<<>>}
                  ELSE LET shorter == SeqsUpTo(S, n - 1)
                       IN  shorter \cup {Append(q, x) : q \in shorter, x \in S}

Results == {[kind |-> "raise", list |-> <<>>], [kind |-> "null", list |-> <<>>]}
           \cup {[kind |-> "list", list |-> l] : l \in SeqsUpTo(Transcripts, MaxMatches)}

(* ------------------------------- actions ------------------------------- *)
Idle(m) == ~m.is_listening /\ m.recognizer = 0 /\ m.listening_timeout = 0

\* the state after handler op turned Self into m (r is the value of m)
Commit(m, op, session, press) ==
    \E r \in {m} :
        /\ log' = [op |-> op, session |-> session, press |-> press,
                   press2 |-> IF op = "toggle_listening" THEN log.press ELSE "no",
                   calls |-> r.calls]
        /\ ir_manager' = r.ir_manager
        /\ recognizer' = r.recognizer
        /\ is_listening' = r.is_listening
        /\ listening_timeout' = r.listening_timeout
        /\ current_color' = r.current_color
        /\ status_label' = r.status_label
        /\ control_btn' = r.control_btn
        /\ progress_bar' = r.progress_bar
        /\ info_label' = r.info_label
        /\ clock' = r.clock
        /\ os' = r.os
        /\ UNCHANGED platform

Init ==
    /\ platform \in {"android", "linux"}
    /\ pc = "import"
    /\ ir_manager = "None"
    /\ recognizer = 0
    /\ is_listening = FALSE
    /\ listening_timeout = 0
    /\ current_color = <<"w", "h", "i", "t", "e">>
    /\ status_label = [text |-> Msg("Ready! Press the button and speak your command", <<>>),
                       mark |-> "", color |-> "white"]
    /\ control_btn = [text |-> "Start Listening", background_color |-> "green",
                      disabled |-> FALSE]
    /\ progress_bar = [opacity |-> 0]
    /\ info_label = <<"w", "h", "i", "t", "e">>
    /\ clock = {}
    /\ os = [created |-> {}, alive |-> {}, listening |-> {}]
    /\ starts = 0
    /\ log = [op |-> "none", session |-> 0, press |-> "no", press2 |-> "no",
              calls |-> NoCalls]

\* the module body: on a platform other than Android the names PythonJavaClass
\* and java_method are not defined and the class statement raises NameError
ImportModule ==
    /\ pc = "import"
    /\ pc' = IF platform = "android" THEN "constructed" ELSE "import_error"
    /\ UNCHANGED <<platform, ir_manager, recognizer, is_listening, listening_timeout,
                   current_color, status_label, control_btn, progress_bar, info_label,
                   clock, os, starts, log>>

\* App.run(): build(), then on_start()
Run ==
    /\ pc = "constructed"
    /\ \E service \in IrServices :
          Commit(on_start(Self, service), "on_start", 0, "no")
    /\ pc' = "running"
    /\ UNCHANGED starts

\* the button's on_press; a disabled button dispatches nothing
Press ==
    /\ pc = "running"
    /\ ~control_btn.disabled
    /\ is_listening \/ starts < MaxSessions
    /\ \E fault \in (IF is_listening THEN {"none"} ELSE StartFaults) :
          LET m == toggle_listening(Self, starts + 1, fault)
          IN  Commit(m, "toggle_listening", IF is_listening THEN recognizer ELSE starts + 1,
                     IF is_listening THEN "listening"
                     ELSE IF ~Idle(Self) THEN "no"
                     ELSE IF fault = "none" THEN "idle" ELSE "idle_fault")
    /\ starts' = IF is_listening THEN starts ELSE starts + 1
    /\ UNCHANGED pc

\* the OS delivers the result of a recognizer that is listening: one result
\* or one error for each startListening, none after destroy()
OnResults ==
    /\ pc = "running"
    /\ \E session \in os.listening, results \in Results, env \in IrAnswers :
          Commit([onResults(Self, results, env, session)
                     EXCEPT !.os.listening = @ \ {session}],
                 "onResults", session, "no")
    /\ UNCHANGED <<pc, starts>>

OnError ==
    /\ pc = "running"
    /\ \E session \in os.listening, error \in ErrorCodes :
          Commit([onError(Self, error, session) EXCEPT !.os.listening = @ \ {session}],
                 "onError", session, "no")
    /\ UNCHANGED <<pc, starts>>

\* the Clock fires a pending event
ClockTimeout ==
    /\ pc = "running"
    /\ \E e \in clock :
          /\ e.kind = "timeout"
          /\ Commit(listening_timeout_callback([Self EXCEPT !.clock = @ \ {e}]),
                    "listening_timeout_callback", e.id, "no")
    /\ UNCHANGED <<pc, starts>>

ClockAnimate ==
    /\ pc = "running"
    /\ \E e \in clock :
          /\ e.kind = "animate"
          /\ Commit(animate_progress([Self EXCEPT !.clock = @ \ {e}], e.id),
                    "animate_progress", e.id, "no")
    /\ UNCHANGED <<pc, starts>>

ClockDelayedStop ==
    /\ pc = "running"
    /\ \E e \in clock :
          /\ e.kind = "stop"
          /\ Commit(stop_listening([Self EXCEPT !.clock = @ \ {e}]),
                    "delayed_stop", e.id, "no")
    /\ UNCHANGED <<pc, starts>>

\* the app closes: on_stop(); the Clock fires nothing afterwards
OnStop ==
    /\ pc = "running"
    /\ Commit(stop_listening(Self), "on_stop", 0, "no")
    /\ pc' = "stopped"
    /\ UNCHANGED starts

Next ==
    \/ ImportModule
    \/ Run
    \/ Press
    \/ OnResults
    \/ OnError
    \/ ClockTimeout
    \/ ClockAnimate
    \/ ClockDelayedStop
    \/ OnStop

Spec == Init /\ [][Next]_vars

\* every scheduled Clock callback eventually fires
LiveSpec ==
    /\ Spec
    /\ WF_vars(ClockTimeout)
    /\ WF_vars(ClockAnimate)
    /\ WF_vars(ClockDelayedStop)

\* only the listening timeout is assumed to fire
TimeoutSpec == Spec /\ WF_vars(ClockTimeout)

(* ------------------------------ properties ----------------------------- *)
UIReset ==
    /\ ~is_listening
    /\ recognizer = 0
    /\ listening_timeout = 0
    /\ control_btn.text = "Start Listening"
    /\ progress_bar.opacity = 0

InSession ==
    /\ is_listening
    /\ recognizer # 0
    /\ recognizer \in os.alive
    /\ listening_timeout # 0
    /\ Event("timeout", listening_timeout) \in clock

Codes == {ON_CODE, OFF_CODE} \cup Range(ColorCodes)

\* C1: an IR transmission (and any call of send_ir_code) happens only in the
\* handler of a transcript delivered by onResults, the delivering recognizer was
\* created by start_listening in a session a button press began, and so nothing
\* is transmitted before the first session was started.
C1_TransmitOnlyFromResults ==
    /\ (log.calls.tx # <<>> \/ log.calls.sent # <<>>) =>
          /\ log.op = "onResults"
          /\ starts >= 1
    /\ log.op = "onResults" =>
          /\ log.session \in os.created
          /\ os.created \subseteq 1..starts

C1_Witness ==
    /\ log.op = "onResults"
    /\ Len(log.calls.tx) = 1
    /\ log.session = 1

C3_CarrierThenPulses ==
    /\ \A p \in Codes : p[1] = CARRIER /\ Len(p) > 1
    /\ \A i \in DOMAIN log.calls.sent : log.calls.sent[i] \in Codes
    /\ Len(log.calls.tx) <= Len(log.calls.sent)
    /\ \A j \in DOMAIN log.calls.tx :
          \E i \in DOMAIN log.calls.sent :
             /\ log.calls.tx[j].frequency = log.calls.sent[i][1]
             /\ <<log.calls.tx[j].frequency>> \o log.calls.tx[j].pattern
                   = log.calls.sent[i]
             /\ log.calls.tx[j].frequency = CARRIER
             /\ log.calls.tx[j].pattern # <<>>

C3_Witness ==
    /\ Len(log.calls.tx) = 1
    /\ log.calls.sent[1] \in Range(ColorCodes)
    /\ log.calls.tx[1].pattern = Tail(log.calls.sent[1])

\* C4: at most one recognizer exists at any time, the one self.recognizer
\* names, and while is_listening is false recognizer is None and no listening
\* timeout is pending.
C4_SingleSession ==
    /\ Cardinality(os.alive) <= 1
    /\ os.alive = IF recognizer = 0 THEN {} ELSE {recognizer}
    /\ ~is_listening =>
          /\ recognizer = 0
          /\ listening_timeout = 0
          /\ \A e \in clock : e.kind # "timeout"

C4_Witness ==
    /\ starts = 2
    /\ recognizer = 2
    /\ os.created = {1, 2}
    /\ os.alive = {2}

\* C5 as stated: at most one callback scheduled with Clock.schedule_once is
\* pending, the three kinds counted together.
C5_OnePendingCallback == Cardinality(clock) <= 1

\* C5 amended: at most one listening timeout is pending, and it is the event
\* self.listening_timeout holds; animation and delayed stop callbacks may be
\* pending beside it.
C5_OnePendingTimeout ==
    /\ Cardinality({e \in clock : e.kind = "timeout"}) <= 1
    /\ \A e \in clock : e.kind = "timeout" => e.id = listening_timeout

C5_Witness ==
    /\ Event("timeout", 2) \in clock
    /\ \E e \in clock : e.kind = "animate"
    /\ \E e \in clock : e.kind = "stop"

IsError(fmt) == status_label.text.fmt = fmt /\ status_label.mark = "cross"
               /\ status_label.color = "red"

C9_DesktopModeDisabled ==
    platform # "android" =>
        /\ pc # "import_error"
        /\ ~is_listening
        /\ os.created = {}
        /\ clock = {}
        /\ log.calls.tx = <<>>

MatchesAny(patterns, command) ==
    \E i \in DOMAIN patterns : re_search(patterns[i], command).ok

\* C10: execute_command tries the groups in the order on, off, color: a
\* command matching an 'on' pattern sends the ON code whatever else it
\* matches, one matching no 'on' but an 'off' pattern sends the OFF code,
\* only a command matching neither is treated as a color change, and a
\* command matching no group sends nothing and returns False.
C10_OnThenOffThenColor ==
    \A k \in DOMAIN log.calls.trace :
        LET t == log.calls.trace[k]
            on == MatchesAny(COMMAND_PATTERNS.on, t.command)
            off == MatchesAny(COMMAND_PATTERNS.off, t.command)
            color == MatchesAny(COMMAND_PATTERNS.color, t.command)
        IN  /\ on => t.sent = <<ON_CODE>> /\ t.ret /\ t.after = t.before
            /\ ~on /\ off => t.sent = <<OFF_CODE>> /\ t.ret /\ t.after = t.before
            /\ ~on /\ ~off /\ color =>
                  \/ t.sent = <<>> /\ ~t.ret /\ t.after = t.before
                  \/ /\ InColorMap(t.after)
                     /\ t.sent = <<COLOR_MAP(t.after)>>
                     /\ t.ret
            /\ ~on /\ ~off /\ ~color => t.sent = <<>> /\ ~t.ret /\ t.after = t.before

C10_Witness ==
    \E k \in DOMAIN log.calls.trace :
        /\ MatchesAny(COMMAND_PATTERNS.on, log.calls.trace[k].command)
        /\ MatchesAny(COMMAND_PATTERNS.off, log.calls.trace[k].command)
        /\ MatchesAny(COMMAND_PATTERNS.color, log.calls.trace[k].command)
        /\ log.calls.trace[k].sent = <<ON_CODE>>

\* the command group that decides command, as the tables give it
IsOn(command) == MatchesAny(COMMAND_PATTERNS.on, command)
IsOff(command) == ~IsOn(command) /\ MatchesAny(COMMAND_PATTERNS.off, command)

\* the colours command names: the group of every color pattern that matches
NamedColors(command) ==
    {lower(re_search(COMMAND_PATTERNS.color[i], command).group) :
        i \in {j \in DOMAIN COMMAND_PATTERNS.color :
                  re_search(COMMAND_PATTERNS.color[j], command).ok}}

\* the colour of the first color pattern, in the order of the table, that matches
FirstNamedColor(command) ==
    lower(re_search(
            COMMAND_PATTERNS.color[
               MinOr0({j \in DOMAIN COMMAND_PATTERNS.color :
                          re_search(COMMAND_PATTERNS.color[j], command).ok})],
            command).group)

IsColorAny(command) ==
    /\ ~IsOn(command) /\ ~MatchesAny(COMMAND_PATTERNS.off, command)
    /\ \E c \in NamedColors(command) : InColorMap(c)

IsColorFirst(command) ==
    /\ ~IsOn(command) /\ ~MatchesAny(COMMAND_PATTERNS.off, command)
    /\ MatchesAny(COMMAND_PATTERNS.color, command)
    /\ InColorMap(FirstNamedColor(command))

CodeFirst(command) ==
    IF IsOn(command) THEN ON_CODE
    ELSE IF IsOff(command) THEN OFF_CODE
    ELSE COLOR_MAP(FirstNamedColor(command))

CodeAny(command) ==
    IF IsOn(command) THEN ON_CODE
    ELSE IF IsOff(command) THEN OFF_CODE
    ELSE COLOR_MAP(CHOOSE c \in NamedColors(command) : InColorMap(c))

AcceptedAny(command) == IsOn(command) \/ IsOff(command) \/ IsColorAny(command)
AcceptedFirst(command) == IsOn(command) \/ IsOff(command) \/ IsColorFirst(command)

\* any says whether a color command counts when any of its color patterns
\* names an available color, or only when the first that matches does
Reading(any, command) ==
    IF any
    THEN [ok |-> AcceptedAny(command),
          code |-> IF AcceptedAny(command) THEN CodeAny(command) ELSE <<>>]
    ELSE [ok |-> AcceptedFirst(command),
          code |-> IF AcceptedFirst(command) THEN CodeFirst(command) ELSE <<>>]

\* the readings of the commands of the model, evaluated once
ReadingTable == [x \in BOOLEAN \X Commands |-> Reading(x[1], x[2])] @@ <<>>

Accepted(any, command) ==
    IF <<any, command>> \in DOMAIN ReadingTable
    THEN ReadingTable[<<any, command>>].ok ELSE Reading(any, command).ok

Code(any, command) ==
    IF <<any, command>> \in DOMAIN ReadingTable
    THEN ReadingTable[<<any, command>>].code ELSE Reading(any, command).code

NotRecognized == [text |-> Msg("Command not recognized. Try: ...", <<>>),
                  mark |-> "", color |-> "white"]

\* r is what onResults leaves when it is given the candidates list
CandidatesInOrder(any, list, r) ==
    LET commands == [i \in DOMAIN list |-> command_of(list[i])]
        first == MinOr0({i \in DOMAIN list : Accepted(any, commands[i])})
        tried == IF first = 0 THEN Len(list) ELSE first
    IN  /\ Len(r.calls.sent) <= 1
        /\ Len(r.calls.trace) = tried
        /\ \A i \in 1..tried :
              /\ i <= Len(r.calls.trace)
              /\ r.calls.trace[i].command = commands[i]
        /\ first # 0 => r.calls.sent = <<Code(any, commands[first])>>
        /\ first = 0 => r.calls.sent = <<>> /\ r.status_label = NotRecognized

\* every result the recognizer of a listening session may deliver
EveryResultInOrder(any) ==
    pc = "running" =>
       \A session \in os.listening, results \in Results, env \in IrAnswers :
          (results.kind = "list" /\ results.list # <<>>) =>
             CandidatesInOrder(any, results.list,
                               onResults(Self, results, env, session))

\* the calls of execute_command the last onResults made
TriedInOrder(any) ==
    (log.op = "onResults" /\ log.calls.trace # <<>>) =>
       /\ Len(log.calls.sent) <= 1
       /\ \A i \in 1..(Len(log.calls.trace) - 1) :
             ~Accepted(any, log.calls.trace[i].command)
       /\ IF Accepted(any, log.calls.trace[Len(log.calls.trace)].command)
          THEN log.calls.sent =
                  <<Code(any, log.calls.trace[Len(log.calls.trace)].command)>>
          ELSE log.calls.sent = <<>> /\ status_label = NotRecognized

\* C11 as stated: the candidates are tried in list order up to the first that
\* is an on command, an off command or a color command naming an available
\* color (any color pattern that matches names one); at most one code is sent,
\* the code of that candidate, and with no such candidate nothing is sent and
\* the status is the 'Command not recognized' message.
C11_FirstCandidateNamingColor == EveryResultInOrder(TRUE) /\ TriedInOrder(TRUE)

\* C11 amended: a color command counts when the first color pattern of the
\* table that matches it names an available color.
C11_FirstAcceptedCandidate == EveryResultInOrder(FALSE) /\ TriedInOrder(FALSE)

C11_Witness ==
    /\ log.op = "onResults"
    /\ Len(log.calls.trace) = 2
    /\ ~log.calls.trace[1].ret
    /\ MatchesAny(COMMAND_PATTERNS.color, log.calls.trace[1].command)
    /\ log.calls.trace[2].ret
    /\ Len(log.calls.sent) = 1

\* the conditions under which send_ir_code reaches ir_manager.transmit
MayTransmit(m, env) ==
    /\ platform = "android"
    /\ m.ir_manager = "ConsumerIrManager"
    /\ env.emitter

\* r is what send_ir_code leaves when it is called on m with the answers env
TransmitGuarded(m, env, r) ==
    /\ Len(r.calls.sent) = Len(m.calls.sent) + 1
    /\ r.calls.tx # m.calls.tx => MayTransmit(m, env)
    /\ ~MayTransmit(m, env) =>
          /\ r.calls.tx = m.calls.tx
          /\ r.status_label.color # "green"
          /\ r.status_label.text.fmt \in {"[Desktop Mode] {action_text}",
                                          "IR manager not available",
                                          "No IR emitter found"}

\* C12: ir_manager.transmit is called only on Android, with the IR manager
\* on_start obtained, and when hasIrEmitter() answers true at the time of
\* sending; otherwise send_ir_code transmits nothing and shows a status or an
\* error message, not the success message.  Stated of the callback that just
\* ran and of a call of send_ir_code in every state the app reaches.
C12_TransmitGuarded ==
    /\ log.calls.tx # <<>> =>
          /\ platform = "android"
          /\ ir_manager = "ConsumerIrManager"
          /\ log.op = "onResults"
    /\ (log.calls.sent # <<>> /\ log.calls.tx = <<>>) => status_label.color # "green"
    /\ \A env \in IrAnswers :
          TransmitGuarded(Self, env,
                          send_ir_code(Self, ON_CODE, Msg("Turning lights ON", <<>>), env))

C12_Witness ==
    /\ log.op = "onResults"
    /\ platform = "android"
    /\ ir_manager = "ConsumerIrManager"
    /\ log.calls.sent # <<>>
    /\ log.calls.tx = <<>>
    /\ status_label = [text |-> Msg("No IR emitter found", <<>>),
                       mark |-> "cross", color |-> "red"]

\* a step that ends the session in progress; starts is the session the last
\* start_listening began
EndsSession == is_listening /\ ~is_listening'

\* C13: a delayed stop scheduled by the result or the error of one session
\* never ends a later session: a session started by a button press is ended
\* only by a later button press, by its own result or error callback (and the
\* stop that callback scheduled), by its own listening timeout, or by the app
\* closing.
C13_EndedOnlyByItsOwnCallbacks ==
    [][EndsSession =>
          \/ log'.op \in {"toggle_listening", "on_stop"}
          \/ /\ log'.op \in {"onResults", "onError", "listening_timeout_callback",
                             "delayed_stop"}
             /\ log'.session = starts]_vars

====
